---- MODULE Spec2Model ----
(***************************************************************************)
(* Model of analyze_objects.py: GlitchObjectAnalyzer (the loader and the   *)
(* queries) and the summary / inventory / progression commands of main.    *)
(*                                                                         *)
(* Text that the code takes apart (file names, class tags, integer         *)
(* literals, entity ids) is a sequence of one-character strings; text that *)
(* the code only compares or passes on (element tags, element ids, labels) *)
(* is a plain string.  A value that Python may hold as None is an option:  *)
(* None is the empty sequence and Some(v) the one-element sequence <<v>>.  *)
(***************************************************************************)
EXTENDS Integers, Sequences, FiniteSets, TLC

VARIABLES
    dir,      \* the data directory: file name -> document
    todo,     \* file names os.listdir has not yet handed to the loop
    objects,  \* self.objects: the dict, as its (key, val) items in insertion order
    errors,   \* file names of the "Error loading" lines printed so far
    pc,       \* "load" while load_objects runs, "ready" after construction
    result    \* what the last call returned (or that it raised)

vars == <<dir, todo, objects, errors, pc, result>>

----------------------------------------------------------------------------
(* Bounds of the model *)

MaxFiles == 2      \* files in the directory
MaxChildren == 3   \* children of a skills / achievements collection

----------------------------------------------------------------------------
(* Python values *)

None == <<>>
Some(v) == <<v>>
IsNone(o) == o = <<>>
Val(o) == o[1]

\* str.startswith
StartsWith(s, p) == Len(s) >= Len(p) /\ SubSeq(s, 1, Len(p)) = p

\* str.endswith
EndsWith(s, p) == Len(s) >= Len(p) /\ SubSeq(s, Len(s) - Len(p) + 1, Len(s)) = p

Digits == <<"0", "1", "2", "3", "4", "5", "6", "7", "8", "9">>

IsDigit(c) == \E i \in 1..Len(Digits) : Digits[i] = c

DigitVal(c) == (CHOOSE i \in 1..Len(Digits) : Digits[i] = c) - 1

RECURSIVE DigitsVal(_)
DigitsVal(s) ==
    IF s = <<>> THEN 0
    ELSE 10 * DigitsVal(SubSeq(s, 1, Len(s) - 1)) + DigitVal(s[Len(s)])

Unsigned(s) == IF s # <<>> /\ s[1] \in {"-", "+"} THEN Tail(s) ELSE s

\* int(s) for a str s accepts an optional sign followed by at least one digit
\* (surrounding blanks and digit-group underscores are not modelled) and
\* raises ValueError on anything else.
IntOk(s) == Unsigned(s) # <<>> /\ \A i \in 1..Len(Unsigned(s)) : IsDigit(Unsigned(s)[i])

IntVal(s) ==
    IF s # <<>> /\ s[1] = "-" THEN 0 - DigitsVal(Unsigned(s)) ELSE DigitsVal(Unsigned(s))

----------------------------------------------------------------------------
(* xml.etree.ElementTree elements: [tag, attrib, text, children] *)

Elem(tag, attrib, text, children) ==
    [tag |-> tag, attrib |-> attrib, text |-> text, children |-> children]

NoAttrib == [x \in {} |-> ""]

\* Element.get(key, default)
Get(e, key, default) == IF key \in DOMAIN e.attrib THEN e.attrib[key] ELSE default

\* Element.get(key): the value as an option
GetOpt(e, key) == IF key \in DOMAIN e.attrib THEN Some(e.attrib[key]) ELSE None

\* every descendant of a sequence of sibling elements, in document order
RECURSIVE DescSeq(_)
DescSeq(cs) ==
    IF cs = <<>> THEN <<>>
    ELSE <<Head(cs)>> \o DescSeq(Head(cs).children) \o DescSeq(Tail(cs))

RECURSIVE FilterElems(_, _, _)
FilterElems(es, tag, id) ==
    IF es = <<>> THEN <<>>
    ELSE LET e == Head(es)
             hit == e.tag = tag /\ (IsNone(id) \/ GetOpt(e, "id") = id)
         IN  (IF hit THEN <<e>> ELSE <<>>) \o FilterElems(Tail(es), tag, id)

\* Element.findall('.//tag')
FindAll(e, tag) == FilterElems(DescSeq(e.children), tag, None)

\* Element.find('.//tag[@id="id"]'): the first match as an option
Find(e, tag, id) ==
    LET hits == FilterElems(DescSeq(e.children), tag, Some(id))
    IN  IF hits = <<>> THEN None ELSE Some(Head(hits))

----------------------------------------------------------------------------
(* The entity store: a dict in insertion order *)

Has(d, k) == \E i \in 1..Len(d) : d[i].key = k

Lookup(d, k) == d[CHOOSE i \in 1..Len(d) : d[i].key = k].val

\* d[k] = v: a new key goes to the end, a known key keeps its place
Put(d, k, v) ==
    IF Has(d, k)
    THEN [i \in 1..Len(d) |-> IF d[i].key = k THEN [key |-> k, val |-> v] ELSE d[i]]
    ELSE Append(d, [key |-> k, val |-> v])

\* k in d, for a k that may be None
HasOpt(d, ko) == ~IsNone(ko) /\ Has(d, Val(ko))

----------------------------------------------------------------------------
(* parse_object *)

DotXml == <<".", "x", "m", "l">>

UnknownClass == <<"u", "n", "k", "n", "o", "w", "n">>

\* filename[:-4]
Stem(filename) == SubSeq(filename, 1, Len(filename) - Len(DotXml))

\* ET.parse raises ParseError on malformed markup and on a document with no
\* root element; int() raises ValueError on a ts that is no integer literal.
ParseRaises(doc) ==
    \/ doc.kind # "ok"
    \/ "ts" \in DOMAIN doc.root.attrib /\ ~IntOk(doc.root.attrib.ts)

\* parse_object with the class default used for the label as well
ParseObjectLowerLabel(doc) ==
    LET root == doc.root
    IN  [tsid      |-> GetOpt(root, "tsid"),
         label     |-> Get(root, "label", "unknown"),
         class     |-> Get(root, "class_tsid", UnknownClass),
         timestamp |-> IF "ts" \in DOMAIN root.attrib THEN IntVal(root.attrib.ts) ELSE 0,
         container |-> GetOpt(root, "container"),
         xml       |-> root]

\* the dict parse_object returns when it does not raise
ParseObject(doc) ==
    LET root == doc.root
    IN  [tsid      |-> GetOpt(root, "tsid"),
         label     |-> Get(root, "label", "Unknown"),
         class     |-> Get(root, "class_tsid", UnknownClass),
         timestamp |-> IF "ts" \in DOMAIN root.attrib THEN IntVal(root.attrib.ts) ELSE 0,
         container |-> GetOpt(root, "container"),
         xml       |-> root]

----------------------------------------------------------------------------
(* load_objects: one step per iteration of its loop; os.listdir hands out  *)
(* the file names in an arbitrary order                                    *)

\* load_objects without its try / except: the first exception ends the loop
LoadFileAborting ==
    /\ pc = "load"
    /\ \E filename \in todo :
        IF ~EndsWith(filename, DotXml)
        THEN /\ todo' = todo \ {filename}
             /\ UNCHANGED <<objects, errors>>
        ELSE IF ParseRaises(dir[filename])
        THEN /\ todo' = {}
             /\ UNCHANGED <<objects, errors>>
        ELSE /\ todo' = todo \ {filename}
             /\ objects' = Put(objects, Stem(filename), ParseObject(dir[filename]))
             /\ UNCHANGED errors
    /\ UNCHANGED <<dir, pc, result>>

LoadFile ==
    /\ pc = "load"
    /\ \E filename \in todo :
        /\ todo' = todo \ {filename}
        /\ IF ~EndsWith(filename, DotXml)
           THEN UNCHANGED <<objects, errors>>
           ELSE IF ParseRaises(dir[filename])
           THEN /\ errors' = Append(errors, filename)
                /\ UNCHANGED objects
           ELSE /\ objects' = Put(objects, Stem(filename), ParseObject(dir[filename]))
                /\ UNCHANGED errors
    /\ UNCHANGED <<dir, pc, result>>

LoadReturn ==
    /\ pc = "load"
    /\ todo = {}
    /\ pc' = "ready"
    /\ UNCHANGED <<dir, todo, objects, errors, result>>

----------------------------------------------------------------------------
(* get_object_counts *)

BagPrefix == <<"b", "a", "g", "_">>
TrantPrefix == <<"t", "r", "a", "n", "t", "_">>
DcTag == <<"d", "c">>
HumanTag == <<"h", "u", "m", "a", "n">>
GroupTag == <<"g", "r", "o", "u", "p">>

\* the classification with the bag prefix cut short to 'bag'
ClassifyShortPrefix(class_type) ==
    IF StartsWith(class_type, SubSeq(BagPrefix, 1, Len(BagPrefix) - 1)) THEN "Bags"
    ELSE IF class_type = DcTag THEN "Data Containers"
    ELSE IF class_type = HumanTag THEN "Players"
    ELSE IF class_type = GroupTag THEN "Groups"
    ELSE IF StartsWith(class_type, TrantPrefix) THEN "Trees/Plants"
    ELSE "Items"

Classify(class_type) ==
    IF StartsWith(class_type, BagPrefix) THEN "Bags"
    ELSE IF class_type = DcTag THEN "Data Containers"
    ELSE IF class_type = HumanTag THEN "Players"
    ELSE IF class_type = GroupTag THEN "Groups"
    ELSE IF StartsWith(class_type, TrantPrefix) THEN "Trees/Plants"
    ELSE "Items"

\* the increment that creates a new key without counting the entity
IncrementFromZero(counts, cat) ==
    IF cat \in DOMAIN counts
    THEN [counts EXCEPT ![cat] = @ + 1]
    ELSE [c \in DOMAIN counts \cup {cat} |-> IF c = cat THEN 0 ELSE counts[c]]

\* counts[cat] += 1 on a defaultdict(int)
Increment(counts, cat) ==
    IF cat \in DOMAIN counts
    THEN [counts EXCEPT ![cat] = @ + 1]
    ELSE [c \in DOMAIN counts \cup {cat} |-> IF c = cat THEN 1 ELSE counts[c]]

NoCounts == [c \in {} |-> 0]

RECURSIVE CountLoop(_, _)
CountLoop(objs, counts) ==
    IF objs = <<>> THEN counts
    ELSE CountLoop(Tail(objs), Increment(counts, Classify(Head(objs).val.class)))

ObjectCounts(objs) == CountLoop(objs, NoCounts)

Returned(op, arg, kind, value) == [op |-> op, arg |-> arg, kind |-> kind, value |-> value]

GetObjectCounts ==
    /\ pc = "ready"
    /\ result' = Returned("get_object_counts", None, "dict", ObjectCounts(objects))
    /\ UNCHANGED <<dir, todo, objects, errors, pc>>

----------------------------------------------------------------------------
(* find_containers *)

\* the loop with contained.insert(0, obj) for contained.append(obj)
RECURSIVE ContainedLoopReversed(_, _)
ContainedLoopReversed(objs, container_tsid) ==
    IF objs = <<>> THEN <<>>
    ELSE ContainedLoopReversed(Tail(objs), container_tsid)
         \o (IF Head(objs).val.container = container_tsid THEN <<Head(objs).val>> ELSE <<>>)

RECURSIVE ContainedLoop(_, _)
ContainedLoop(objs, container_tsid) ==
    IF objs = <<>> THEN <<>>
    ELSE (IF Head(objs).val.container = container_tsid THEN <<Head(objs).val>> ELSE <<>>)
         \o ContainedLoop(Tail(objs), container_tsid)

\* ids a caller may ask about: the stems of the directory's names and one more
IdA == <<"A">>
IdB == <<"B">>
IdZ == <<"Z">>
QueryIds == {IdA, IdB, IdZ}

FindContainers ==
    /\ pc = "ready"
    /\ \E container_tsid \in QueryIds :
        result' = Returned("find_containers", Some(container_tsid), "list",
                           ContainedLoop(objects, Some(container_tsid)))
    /\ UNCHANGED <<dir, todo, objects, errors, pc>>

----------------------------------------------------------------------------
(* analyze_player *)

\* f"{prop.text}/{prop.get('top')}", kept as its two parts
Stat(prop) == [text |-> prop.text, top |-> GetOpt(prop, "top")]

PlayerInfo(objs, player_tsid) ==
    LET player == Lookup(objs, player_tsid)
        xml == player.xml
        metabolics == Find(xml, "object", "metabolics")
        energy_prop == IF IsNone(metabolics) THEN None ELSE Find(Val(metabolics), "prop", "energy")
        mood_prop == IF IsNone(metabolics) THEN None ELSE Find(Val(metabolics), "prop", "mood")
        tank_elem == IF IsNone(metabolics) THEN None ELSE Find(Val(metabolics), "int", "tank")
    IN  [name       |-> player.label,
         tsid       |-> player_tsid,
         energy     |-> IF IsNone(energy_prop) THEN None ELSE Some(Stat(Val(energy_prop))),
         mood       |-> IF IsNone(mood_prop) THEN None ELSE Some(Stat(Val(mood_prop))),
         tank       |-> IF IsNone(tank_elem) THEN None ELSE Some(Val(tank_elem).text),
         references |-> Len(FindAll(xml, "objref")),
         \* datetime.fromtimestamp(timestamp / 1000): seconds and the rest
         last_update |-> [sec |-> player.timestamp \div 1000, ms |-> player.timestamp % 1000]]

AnalyzePlayer ==
    /\ pc = "ready"
    /\ \E player_tsid \in QueryIds :
        result' = IF ~Has(objects, player_tsid)
                  THEN Returned("analyze_player", Some(player_tsid), "msg", "Player not found")
                  ELSE Returned("analyze_player", Some(player_tsid), "dict",
                                PlayerInfo(objects, player_tsid))
    /\ UNCHANGED <<dir, todo, objects, errors, pc>>

----------------------------------------------------------------------------
(* analyze_skills and analyze_achievements *)

\* list.sort(key=...) is stable: an item goes behind every item whose key is
\* not greater than its own
RECURSIVE InsertByTimestamp(_, _)
InsertByTimestamp(sorted, item) ==
    IF sorted = <<>> THEN <<item>>
    ELSE IF Head(sorted).timestamp <= item.timestamp
         THEN <<Head(sorted)>> \o InsertByTimestamp(Tail(sorted), item)
         ELSE <<item>> \o sorted

RECURSIVE SortByTimestamp(_)
SortByTimestamp(items) ==
    IF items = <<>> THEN <<>>
    ELSE InsertByTimestamp(SortByTimestamp(SubSeq(items, 1, Len(items) - 1)), items[Len(items)])

\* int(child.text) raises TypeError on a text of None and ValueError on a text
\* that is no integer literal
IntTextRaises(child) == IsNone(child.text) \/ ~IntOk(Val(child.text))

\* the loop over the collection's direct children raises at the first int
\* child whose text int() rejects
LoopRaises(children) ==
    \E i \in 1..Len(children) : children[i].tag = "int" /\ IntTextRaises(children[i])

RECURSIVE CollectLoop(_)
CollectLoop(children) ==
    IF children = <<>> THEN <<>>
    ELSE (IF Head(children).tag = "int"
          THEN <<[id |-> GetOpt(Head(children), "id"),
                  timestamp |-> IntVal(Val(Head(children).text))]>>
          ELSE <<>>)
         \o CollectLoop(Tail(children))

\* the body both methods share: op names the method, collection the node id
Timeline(op, objs, tsid, collection, missing, empty) ==
    IF ~HasOpt(objs, tsid)
    THEN Returned(op, tsid, "msg", missing)
    ELSE LET elem == Find(Lookup(objs, Val(tsid)).xml, "object", collection)
         IN  IF IsNone(elem)
             THEN Returned(op, tsid, "msg", empty)
             ELSE IF LoopRaises(Val(elem).children)
             THEN Returned(op, tsid, "raise", "int()")
             ELSE Returned(op, tsid, "list", SortByTimestamp(CollectLoop(Val(elem).children)))

AnalyzeSkillsOf(objs, skills_tsid) ==
    Timeline("analyze_skills", objs, skills_tsid, "skills",
             "Skills object not found", "No skills data found")

AnalyzeAchievementsOf(objs, achievements_tsid) ==
    Timeline("analyze_achievements", objs, achievements_tsid, "achievements",
             "Achievements object not found", "No achievements data found")

RECURSIVE Without(_, _)
Without(d, k) ==
    IF d = <<>> THEN <<>>
    ELSE (IF Head(d).key = k THEN <<>> ELSE <<Head(d)>>) \o Without(Tail(d), k)

\* analyze_skills with self.objects.pop(skills_tsid, None) for the lookup
AnalyzeSkillsPopping ==
    /\ pc = "ready"
    /\ \E skills_tsid \in QueryIds :
        /\ result' = AnalyzeSkillsOf(objects, Some(skills_tsid))
        /\ objects' = Without(objects, skills_tsid)
    /\ UNCHANGED <<dir, todo, errors, pc>>

AnalyzeSkills ==
    /\ pc = "ready"
    /\ \E skills_tsid \in QueryIds : result' = AnalyzeSkillsOf(objects, Some(skills_tsid))
    /\ UNCHANGED <<dir, todo, objects, errors, pc>>

AnalyzeAchievements ==
    /\ pc = "ready"
    /\ \E achievements_tsid \in QueryIds :
        result' = AnalyzeAchievementsOf(objects, Some(achievements_tsid))
    /\ UNCHANGED <<dir, todo, objects, errors, pc>>

----------------------------------------------------------------------------
(* main: the commands that call the queries with values taken from the store *)

RECURSIVE PlayersLoop(_)
PlayersLoop(objs) ==
    IF objs = <<>> THEN <<>>
    ELSE (IF Head(objs).val.class = HumanTag THEN <<Head(objs).val>> ELSE <<>>)
         \o PlayersLoop(Tail(objs))

RECURSIVE BagsLoop(_)
BagsLoop(bags) ==
    IF bags = <<>> THEN <<>>
    ELSE (IF StartsWith(Head(bags).class, BagPrefix)
          THEN <<[bag |-> Head(bags), items |-> Len(FindAll(Head(bags).xml, "objref"))]>>
          ELSE <<>>)
         \o BagsLoop(Tail(bags))

MainSummary ==
    /\ pc = "ready"
    /\ LET players == PlayersLoop(objects)
           shown == [total  |-> Len(objects),
                     counts |-> ObjectCounts(objects),
                     player |-> IF players = <<>> THEN None ELSE Some(players[1]),
                     contained |-> IF players = <<>> THEN <<>>
                                   ELSE ContainedLoop(objects, players[1].tsid)]
       IN  result' = Returned("summary",
                              IF players = <<>> THEN None ELSE players[1].tsid,
                              "printed", shown)
    /\ UNCHANGED <<dir, todo, objects, errors, pc>>

MainInventory ==
    /\ pc = "ready"
    /\ LET players == PlayersLoop(objects)
       IN  result' =
             IF players = <<>>
             THEN Returned("inventory", None, "msg", "No player object found")
             ELSE LET bags == ContainedLoop(objects, players[1].tsid)
                  IN  Returned("inventory", players[1].tsid, "printed",
                               [contained |-> bags, bag_objects |-> BagsLoop(bags)])
    /\ UNCHANGED <<dir, todo, objects, errors, pc>>

\* the tsid a player's objref names, None without it; absent without the objref
RefTsid(xml, id) ==
    LET ref == Find(xml, "objref", id)
    IN  IF IsNone(ref) THEN None ELSE Some(GetOpt(Val(ref), "tsid"))

MainProgression ==
    /\ pc = "ready"
    /\ LET players == PlayersLoop(objects)
       IN  result' =
             IF players = <<>>
             THEN Returned("progression", None, "msg", "No player object found")
             ELSE LET skills_ref == RefTsid(players[1].xml, "skills")
                      ach_ref == RefTsid(players[1].xml, "achievements")
                      skills == IF IsNone(skills_ref) THEN None
                                ELSE Some(AnalyzeSkillsOf(objects, Val(skills_ref)))
                      skills_raised == ~IsNone(skills) /\ Val(skills).kind = "raise"
                      achievements == IF skills_raised \/ IsNone(ach_ref) THEN None
                                      ELSE Some(AnalyzeAchievementsOf(objects, Val(ach_ref)))
                      raised == \/ ~IsNone(skills) /\ Val(skills).kind = "raise"
                                \/ ~IsNone(achievements) /\ Val(achievements).kind = "raise"
                  IN  Returned("progression", players[1].tsid,
                               IF raised THEN "raise" ELSE "printed",
                               [skills |-> skills, achievements |-> achievements])
    /\ UNCHANGED <<dir, todo, objects, errors, pc>>

Next ==
    \/ LoadFile
    \/ LoadReturn
    \/ GetObjectCounts
    \/ FindContainers
    \/ AnalyzePlayer
    \/ AnalyzeSkills
    \/ AnalyzeAchievements
    \/ MainSummary
    \/ MainInventory
    \/ MainProgression

----------------------------------------------------------------------------
(* The directories the model is run on *)

NameA == IdA \o DotXml
NameB == IdB \o DotXml
NameT == IdA \o <<".", "t", "x", "t">>
FileNames == {NameA, NameB, NameT}

\* an attribute that is absent or has one of the values
Attr(name, values) == {NoAttrib} \cup {[x \in {name} |-> v] : v \in values}

Doc(attrib, children) ==
    [kind |-> "ok", root |-> Elem("game_object", attrib, None, children)]

Malformed == [kind |-> "malformed"]
NoRoot == [kind |-> "empty"]

\* the directories of at most max files with the given names and documents
Dirs(names, docs, max) ==
    UNION {[S -> docs] : S \in {T \in SUBSET names : Cardinality(T) <= max}}

NoResult == Returned("none", None, "none", None)

InitOn(dirs) ==
    /\ dir \in dirs
    /\ todo = DOMAIN dir
    /\ objects = <<>>
    /\ errors = <<>>
    /\ pc = "load"
    /\ result = NoResult

BagLarge == BagPrefix \o <<"l", "a", "r", "g", "e">>

\* Spec: up to MaxFiles documents that differ in id, class and container
StoreDocs ==
    {Doc(t @@ c @@ p, <<>>) :
        t \in Attr("tsid", {IdA}),
        c \in Attr("class_tsid", {HumanTag, BagLarge}) \ {NoAttrib},
        p \in Attr("container", {IdA, IdZ})}
    \cup {Malformed, NoRoot, Doc([ts |-> <<"x">>], <<>>)}

Init == InitOn(Dirs(FileNames, StoreDocs, MaxFiles))

Spec == Init /\ [][Next]_vars

\* SpecParse: one document, every combination of the root's attributes
ParseDocs ==
    {Doc(t @@ l @@ c @@ s @@ p, <<>>) :
        t \in Attr("tsid", {IdA, IdB}),
        l \in Attr("label", {"Anna"}),
        c \in Attr("class_tsid", {HumanTag}),
        s \in Attr("ts", {<<"1", "2">>, <<"-", "5">>, <<"x">>, <<>>}),
        p \in Attr("container", {IdB})}
    \cup {Malformed, NoRoot}

InitParse == InitOn(Dirs(FileNames, ParseDocs, 1))

SpecParse == InitParse /\ [][Next]_vars

\* SpecClassify: up to MaxFiles documents that differ in class tag only
ClassTags ==
    {BagPrefix, BagLarge, <<"b", "a", "g">>, <<"b", "a", "g", "e", "l">>,
     DcTag, DcTag \o <<"x">>, HumanTag, HumanTag \o <<"s">>, GroupTag,
     TrantPrefix, TrantPrefix \o <<"b", "e", "a", "n">>, <<"t", "r", "a", "n", "t">>,
     UnknownClass, <<>>, <<"a", "p", "p", "l", "e">>}

ClassDocs == {Doc(c, <<>>) : c \in Attr("class_tsid", ClassTags)} \cup {Malformed}

InitClassify == InitOn(Dirs(FileNames, ClassDocs, MaxFiles))

SpecClassify == InitClassify /\ [][Next]_vars

\* SpecTimeline: one player document A.xml whose tree holds a collection of up
\* to MaxChildren children, or a metabolics object
IdAttr(id) == [id |-> id]

Children ==
    {Elem("int", IdAttr("A"), Some(<<"3", "0", "0">>), <<>>),
     Elem("int", IdAttr("B"), Some(<<"1", "0", "0">>), <<>>),
     Elem("int", IdAttr("C"), Some(<<"2", "0", "0">>), <<>>),
     Elem("int", IdAttr("D"), Some(<<"1", "0", "0">>), <<>>),
     Elem("int", IdAttr("E"), None, <<>>),
     Elem("int", IdAttr("F"), Some(<<"x">>), <<>>),
     Elem("str", IdAttr("G"), Some(<<"5">>), <<>>),
     Elem("object", IdAttr("H"), None, <<Elem("int", IdAttr("I"), Some(<<"1">>), <<>>)>>)}

ChildSeqs == UNION {[1..n -> Children] : n \in 0..MaxChildren}

Ref(id, tsid) == Elem("objref", [id |-> id, tsid |-> tsid], None, <<>>)

\* the skills collection is a direct child of the root, the achievements
\* collection lies one level deeper
CollectionTrees ==
    {<<Ref("skills", IdA), Elem("object", IdAttr("skills"), None, cs)>> : cs \in ChildSeqs}
    \cup {<<Ref("achievements", IdA),
            Elem("object", IdAttr("stats"), None,
                 <<Elem("object", IdAttr("achievements"), None, cs)>>)>> : cs \in ChildSeqs}

Prop(id) == Elem("prop", [id |-> id, top |-> <<"1", "0", "0">>], Some(<<"9", "0">>), <<>>)

MetabolicsTrees ==
    {<<Elem("object", IdAttr("metabolics"), None, e \o m \o t)>> \o r :
        e \in {<<>>, <<Prop("energy")>>},
        m \in {<<>>, <<Elem("prop", IdAttr("mood"), None, <<>>)>>},
        t \in {<<>>, <<Elem("int", IdAttr("tank"), Some(<<"5", "0">>), <<>>)>>},
        r \in {<<>>, <<Ref("skills", IdZ)>>,
               <<Elem("objref", IdAttr("achievements"), None, <<>>)>>}}
    \cup {<<>>, <<Elem("object", IdAttr("other"), None, <<Prop("energy")>>)>>}

TimelineDocs ==
    {Doc([tsid |-> IdA, class_tsid |-> HumanTag], tree) :
        tree \in CollectionTrees \cup MetabolicsTrees}

InitTimeline == InitOn([{NameA} -> TimelineDocs])

SpecTimeline == InitTimeline /\ [][Next]_vars

----------------------------------------------------------------------------
(* What the claims speak of *)

\* the documents of the directory: its .xml files
Documents == {f \in DOMAIN dir : EndsWith(f, DotXml)}

\* the documents parse_object raises on
Unparsable == {f \in Documents : ParseRaises(dir[f])}

Range(seq) == {seq[i] : i \in 1..Len(seq)}

\* the find_containers calls behind the last result, each with its argument
\* and what it returned
ContainerCalls ==
    IF result.op = "find_containers"
    THEN {[arg |-> result.arg, ret |-> result.value]}
    ELSE IF result.op = "summary" /\ ~IsNone(result.value.player)
    THEN {[arg |-> result.arg, ret |-> result.value.contained]}
    ELSE IF result.op = "inventory" /\ result.kind = "printed"
    THEN {[arg |-> result.arg, ret |-> result.value.contained]}
    ELSE {}

\* C1: once load_objects has returned it has handled every document of the
\* directory; the printed errors are exactly the unparsable documents, one
\* each; the store has at most n - k entities and holds every parsable
\* document under its stem, whatever the order of enumeration was.
C1_LoadIsolatesErrors ==
    pc = "ready" =>
        /\ todo = {}
        /\ Len(errors) = Cardinality(Unparsable)
        /\ Range(errors) = Unparsable
        /\ Len(objects) <= Cardinality(Documents) - Cardinality(Unparsable)
        /\ \A f \in Documents \ Unparsable : Has(objects, Stem(f))

\* a load of two documents, one of them unparsable, has returned
C1_Witness ==
    /\ pc = "ready"
    /\ Cardinality(Documents) = 2
    /\ Len(errors) = 1
    /\ Len(objects) = 1

\* C2: every find_containers(c) call returns (without raising) exactly the
\* store's entities whose container equals c, each once and in the store's
\* insertion order; whether c is a key of the store does not matter.
C2_FindContainersExact ==
    \A call \in ContainerCalls :
        LET children == {i \in 1..Len(objects) : objects[i].val.container = call.arg}
        IN  /\ Len(call.ret) = Cardinality(children)
            /\ \E pos \in [1..Len(call.ret) -> 1..Len(objects)] :
                /\ \A k \in 1..Len(call.ret) :
                    /\ pos[k] \in children
                    /\ call.ret[k] = objects[pos[k]].val
                /\ \A j, k \in 1..Len(call.ret) : j < k => pos[j] < pos[k]

\* find_containers returned two children of an id that is no key of the store
C2_Witness ==
    /\ result.op = "find_containers"
    /\ Len(result.value) = 2
    /\ ~HasOpt(objects, result.arg)

\* C3: every entry of the store has an entity whose id field is its key.
C3_IdIsKey ==
    \A i \in 1..Len(objects) : objects[i].val.tsid = Some(objects[i].key)

\* C8: no find_containers call, those of the summary and inventory commands
\* included, returns an entity that has no container.
C8_RootNeverReturned ==
    \A call \in ContainerCalls :
        \A k \in 1..Len(call.ret) : ~IsNone(call.ret[k].container)

Categories == {"Bags", "Data Containers", "Players", "Groups", "Trees/Plants", "Items"}

\* the first-match rule of the classification, character by character
HasChars(tag, chars) == Len(tag) >= Len(chars) /\ \A i \in 1..Len(chars) : tag[i] = chars[i]

RuleCategory(tag) ==
    IF HasChars(tag, <<"b", "a", "g", "_">>) THEN "Bags"
    ELSE IF tag = <<"d", "c">> THEN "Data Containers"
    ELSE IF tag = <<"h", "u", "m", "a", "n">> THEN "Players"
    ELSE IF tag = <<"g", "r", "o", "u", "p">> THEN "Groups"
    ELSE IF HasChars(tag, <<"t", "r", "a", "n", "t", "_">>) THEN "Trees/Plants"
    ELSE "Items"

\* the count mappings behind the last result
CountResults ==
    IF result.op = "get_object_counts" THEN {result.value}
    ELSE IF result.op = "summary" THEN {result.value.counts}
    ELSE {}

RECURSIVE SumOver(_, _)
SumOver(counts, cats) ==
    IF cats = {} THEN 0
    ELSE LET c == CHOOSE x \in cats : TRUE
         IN  counts[c] + SumOver(counts, cats \ {c})

\* C5: the counts are those of the first-match rule: each category's count is
\* the number of entities whose class tag the rule puts in that category (a
\* tag with the bag prefix in Bags), and no other category appears.
C5_ClassifyByPriority ==
    \A counts \in CountResults :
        /\ DOMAIN counts \subseteq Categories
        /\ \A cat \in Categories :
            (IF cat \in DOMAIN counts THEN counts[cat] ELSE 0)
              = Cardinality({i \in 1..Len(objects) : RuleCategory(objects[i].val.class) = cat})

\* the counts of a store with a bag_ entity and an entity tagged 'bag'
C5_Witness ==
    /\ result.op = "get_object_counts"
    /\ \E i, j \in 1..Len(objects) :
        /\ StartsWith(objects[i].val.class, BagPrefix)
        /\ objects[j].val.class = <<"b", "a", "g">>
    /\ result.value = [c \in {"Bags", "Items"} |-> 1]

\* C6: the counts sum to the number of entities of the store, and every
\* count that is returned is at least 1.
C6_CountsSumToStore ==
    \A counts \in CountResults :
        /\ SumOver(counts, DOMAIN counts) = Len(objects)
        /\ \A cat \in DOMAIN counts : counts[cat] >= 1

\* the counts of a store of two entities, one with the default class tag
C6_Witness ==
    /\ result.op = "get_object_counts"
    /\ Len(objects) = 2
    /\ \E i \in 1..Len(objects) :
        /\ "class_tsid" \notin DOMAIN objects[i].val.xml.attrib
        /\ objects[i].val.class = UnknownClass

\* the entity the store holds for document f has the documented fields
EntityAsDocumented(f) ==
    LET a == dir[f].root.attrib
        e == Lookup(objects, Stem(f))
    IN  /\ e.label = (IF "label" \in DOMAIN a THEN a.label ELSE "Unknown")
        /\ e.class = (IF "class_tsid" \in DOMAIN a THEN a.class_tsid ELSE UnknownClass)
        /\ e.timestamp = (IF "ts" \in DOMAIN a THEN IntVal(a.ts) ELSE 0)
        /\ ("ts" \in DOMAIN a /\ a.ts = <<"1", "2">>) => e.timestamp = 12
        /\ ("ts" \in DOMAIN a /\ a.ts = <<"-", "5">>) => e.timestamp = 0 - 5
        /\ e.container = (IF "container" \in DOMAIN a THEN Some(a.container) ELSE None)

\* C9 as stated: every well-formed document with a root is parsed into an
\* entity with the documented fields, and is not reported as a failure.
C9_EveryWellFormedParsed ==
    pc = "ready" =>
        \A f \in Documents :
            dir[f].kind = "ok" =>
                /\ f \notin Range(errors)
                /\ Has(objects, Stem(f))
                /\ EntityAsDocumented(f)

\* C9 as amended: a well-formed document with a root whose ts attribute is
\* absent or an integer literal is parsed into an entity with the documented
\* fields; every other document (malformed, without root, or with a ts that
\* is no integer literal) is reported as a failure and is not in the store.
C9_ParsedUnlessBadTs ==
    pc = "ready" =>
        \A f \in Documents :
            IF /\ dir[f].kind = "ok"
               /\ ("ts" \in DOMAIN dir[f].root.attrib => IntOk(dir[f].root.attrib.ts))
            THEN /\ f \notin Range(errors)
                 /\ Has(objects, Stem(f))
                 /\ EntityAsDocumented(f)
            ELSE /\ f \in Range(errors)
                 /\ ~Has(objects, Stem(f))

\* a document without label, class, ts and container was parsed to the defaults
C9_Witness ==
    /\ pc = "ready"
    /\ \E f \in Documents :
        /\ dir[f].kind = "ok"
        /\ DOMAIN dir[f].root.attrib \subseteq {"tsid"}
        /\ Has(objects, Stem(f))
        /\ Lookup(objects, Stem(f)).label = "Unknown"
        /\ Lookup(objects, Stem(f)).timestamp = 0

\* the collection node a timeline call looks for in the entity it names
CollectionOf(op, tsid) ==
    Find(Lookup(objects, Val(tsid)).xml, "object",
         IF op = "analyze_skills" THEN "skills" ELSE "achievements")

\* value holds one pair per int child of children, ascending by timestamp,
\* pairs of equal timestamp in the order of their children
SortedPairsOf(value, children) ==
    LET ints == {i \in 1..Len(children) : children[i].tag = "int"}
    IN  /\ Len(value) = Cardinality(ints)
        /\ \E src \in [1..Len(value) -> ints] :
            /\ \A k \in 1..Len(value) :
                /\ value[k].id = GetOpt(children[src[k]], "id")
                /\ value[k].timestamp = IntVal(Val(children[src[k]].text))
            /\ \A j, k \in 1..Len(value) :
                j < k => \/ value[j].timestamp < value[k].timestamp
                         \/ value[j].timestamp = value[k].timestamp /\ src[j] < src[k]

\* C4: for an entity that holds the collection, analyze_skills and
\* analyze_achievements return one pair per direct int child and none for
\* any other node, sorted by timestamp, ties in source order.
C4_TimelineSortedStable ==
    (/\ result.op \in {"analyze_skills", "analyze_achievements"}
     /\ HasOpt(objects, result.arg)
     /\ ~IsNone(CollectionOf(result.op, result.arg)))
    => /\ result.kind = "list"
       /\ SortedPairsOf(result.value, Val(CollectionOf(result.op, result.arg)).children)

\* what remains of C4 where the call returns: the list it returns is the
\* sorted, stable list of the int children
TimelineSortedWhenReturned ==
    (/\ result.op \in {"analyze_skills", "analyze_achievements"}
     /\ result.kind = "list")
    => SortedPairsOf(result.value, Val(CollectionOf(result.op, result.arg)).children)

\* C7: no query raises.
C7_QueriesNeverRaise == result.kind # "raise"

\* C10: once load_objects has returned no call changes the store (nor the
\* directory or the errors), and a call that repeats the previous call's
\* operation and argument returns what the previous call returned.
C10_QueriesKeepStore ==
    [][pc = "ready" =>
         /\ objects' = objects
         /\ dir' = dir
         /\ errors' = errors
         /\ (result'.op = result.op /\ result'.arg = result.arg) => result' = result]_vars

\* analyze_skills has returned a list of two pairs or more and the store is there
C10_Witness ==
    /\ result.op = "analyze_skills"
    /\ result.kind = "list"
    /\ Len(result.value) >= 2
    /\ Len(objects) = 1

====
